---------------------------- MODULE Spec2Model ----------------------------
(***************************************************************************)
(* A model of src/Dashboard.py: the load_and_clean_data pass over the CSV  *)
(* file, and the body of the Streamlit script (date range, sidebar         *)
(* widgets, filter, KPI tiles, charts, export), which Streamlit executes   *)
(* from its first line on every run of a session.                          *)
(*                                                                         *)
(* Text is a tuple of one-character strings.  A cell of a DataFrame is a   *)
(* tagged value: a string, a float, a Timestamp or the missing value       *)
(* (NaN / NaT).  A DataFrame is its column names and its rows, each row    *)
(* carrying its index label.                                               *)
(***************************************************************************)
EXTENDS Integers, Sequences, FiniteSets, TLC

\* ------------------------------------------------------------- bounds
\* Rows of a CSV file of the small input families.
MaxRows == 2
\* Calendar days run from 0 to MaxDay.
MaxDay == 1
\* Script runs of one session (the first run, then the reruns).
MaxRuns == 2
\* Distinct cities of the many-city input family.
MaxCity == 11

\* ------------------------------------------------------------- text
\* The characters of the model in code-point order (the order Python
\* compares strings by, so the order groupby sorts string keys by).
Chars ==
    << " ", "-", "0", "1", "2", "3", "A", "B", "D", "K", "N", "O", "T", "U", "W",
       "_", "a", "b", "c", "d", "e", "f", "g", "h", "i", "j", "k", "l", "m",
       "n", "o", "t", "u", "w", "x", "y" >>

Rank(c) == CHOOSE i \in DOMAIN Chars : Chars[i] = c

\* s < t as Python compares two str values.
RECURSIVE StrLess(_, _)
StrLess(s, t) ==
    IF t = << >> THEN FALSE
    ELSE IF s = << >> THEN TRUE
    ELSE IF s[1] # t[1] THEN Rank(s[1]) < Rank(t[1])
    ELSE StrLess(Tail(s), Tail(t))

Lowers == << "a", "b", "d", "k", "n", "o", "t", "u", "w" >>
Uppers == << "A", "B", "D", "K", "N", "O", "T", "U", "W" >>

IsUpperChar(c) == \E i \in DOMAIN Uppers : Uppers[i] = c
IsLowerChar(c) == c \in { "a", "b", "c", "d", "e", "f", "g", "h", "i", "j", "k", "l",
                          "m", "n", "o", "t", "u", "w", "x", "y" }
IsCased(c) == IsUpperChar(c) \/ IsLowerChar(c)

LowerChar(c) ==
    IF IsUpperChar(c) THEN Lowers[CHOOSE i \in DOMAIN Uppers : Uppers[i] = c] ELSE c

UpperChar(c) ==
    IF \E i \in DOMAIN Lowers : Lowers[i] = c
    THEN Uppers[CHOOSE i \in DOMAIN Lowers : Lowers[i] = c]
    ELSE c

\* str.title(): a cased character that follows a cased character is
\* lowered, every other character is put in title case.
RECURSIVE TitleFrom(_, _)
TitleFrom(s, prevCased) ==
    IF s = << >> THEN << >>
    ELSE << IF prevCased THEN LowerChar(s[1]) ELSE UpperChar(s[1]) >>
         \o TitleFrom(Tail(s), IsCased(s[1]))

StrTitle(s) == TitleFrom(s, FALSE)

\* str.strip() of a column name.
RECURSIVE LStrip(_)
LStrip(s) == IF s # << >> /\ s[1] = " " THEN LStrip(Tail(s)) ELSE s

RECURSIVE RStrip(_)
RStrip(s) ==
    IF s # << >> /\ s[Len(s)] = " " THEN RStrip(SubSeq(s, 1, Len(s) - 1)) ELSE s

StrStrip(s) == RStrip(LStrip(s))

\* str.replace(old, new) for a one-character old.
StrReplace(s, old, new) == [i \in DOMAIN s |-> IF s[i] = old THEN new ELSE s[i]]

\* ------------------------------------------------------------- cells
Str(s) == [t |-> "str", s |-> s, n |-> 0]
Num(n) == [t |-> "num", s |-> << >>, n |-> n]
Ts(n) == [t |-> "ts", s |-> << >>, n |-> n]
\* The missing value: NaN of a float or object column, NaT of a datetime one.
NaN == [t |-> "nan", s |-> << >>, n |-> 0]

IsNa(c) == c.t = "nan"

fillna(c, value) == IF IsNa(c) THEN value ELSE c

Digits == << "0", "1", "2", "3" >>
IsDigit(c) == \E i \in DOMAIN Digits : Digits[i] = c
DigitVal(c) == (CHOOSE i \in DOMAIN Digits : Digits[i] = c) - 1

IsDigits(s) == s # << >> /\ \A i \in DOMAIN s : IsDigit(s[i])

RECURSIVE DecVal(_)
DecVal(s) ==
    IF s = << >> THEN 0 ELSE 10 * DecVal(SubSeq(s, 1, Len(s) - 1)) + DigitVal(s[Len(s)])

\* pd.to_numeric(errors='coerce') of one cell: a number is kept, text that
\* reads as a decimal integer (a sign, then digits) is parsed, anything
\* else becomes NaN.
to_numeric(c) ==
    IF c.t = "num" THEN c
    ELSE IF c.t # "str" THEN NaN
    ELSE IF IsDigits(c.s) THEN Num(DecVal(c.s))
    ELSE IF c.s # << >> /\ c.s[1] = "-" /\ IsDigits(Tail(c.s)) THEN Num(0 - DecVal(Tail(c.s)))
    ELSE NaN

\* A Timestamp is a count of ticks; a day has the ticks of Ticks.
Ticks == {0, 1}
TicksPerDay == Cardinality(Ticks)
Days == 0 .. MaxDay

\* pd.to_datetime(errors='coerce') of one cell.  The date format of the
\* model is a day digit, "-", a time-of-day digit; text in that format is
\* parsed, a Timestamp is kept, anything else is NaT.
to_datetime(c) ==
    IF c.t = "ts" THEN c
    ELSE IF c.t = "str" /\ Len(c.s) = 3 /\ IsDigit(c.s[1]) /\ c.s[2] = "-" /\ IsDigit(c.s[3])
            /\ DigitVal(c.s[3]) \in Ticks
    THEN Ts(DigitVal(c.s[1]) * TicksPerDay + DigitVal(c.s[3]))
    ELSE NaN

\* Timestamp.date(): the calendar day, the time of day dropped.
DateOf(c) == c.n \div TicksPerDay

\* Series.str.title() of one cell: NaN where the value is not a string.
str_title(c) == IF c.t = "str" THEN Str(StrTitle(c.s)) ELSE NaN

Unknown == Str(<< "U", "n", "k", "n", "o", "w", "n" >>)


\* ------------------------------------------------------------- DataFrame
\* Column names, as the CSV header may spell them and as the script reads them.
cDate == << "D", "a", "t", "e" >>
cAmount == << "A", "m", "o", "u", "n", "t" >>
cQty == << "Q", "t", "y" >>
cCategory == << "C", "a", "t", "e", "g", "o", "r", "y" >>
cStatus == << "S", "t", "a", "t", "u", "s" >>
cShipCity == << "s", "h", "i", "p", "_", "c", "i", "t", "y" >>

HasCol(df, name) == \E j \in DOMAIN df.columns : df.columns[j] = name
ColPos(df, name) == CHOOSE j \in DOMAIN df.columns : df.columns[j] = name

\* df[name] of one row.
Cell(df, row, name) == row.cells[ColPos(df, name)]

\* pd.read_csv: every field is text, an empty field is NaN, the rows are
\* labelled 0, 1, 2, ...  (a column of numbers comes out of to_numeric the
\* same whether read_csv or to_numeric parsed it).
read_csv(f) ==
    [columns |-> f.header,
     rows |-> [i \in DOMAIN f.rows |->
                 [idx |-> i - 1,
                  cells |-> [j \in DOMAIN f.rows[i] |->
                               IF f.rows[i][j] = << >> THEN NaN ELSE Str(f.rows[i][j])]]]]

\* df.columns.str.strip().str.replace('-', '_').str.replace(' ', '_')
NormalizeName(s) == StrReplace(StrReplace(StrStrip(s), "-", "_"), " ", "_")

StandardizeColumns(df) ==
    [df EXCEPT !.columns = [j \in DOMAIN df.columns |-> NormalizeName(df.columns[j])]]

\* df['Date'] = pd.to_datetime(df['Date'], errors='coerce')
ParseDates(df) ==
    [df EXCEPT !.rows = [i \in DOMAIN df.rows |->
        [df.rows[i] EXCEPT !.cells[ColPos(df, cDate)] = to_datetime(@)]]]

\* Variant: the rows without a date kept, their date set to a default day.
DropNaDateFillDefault(df) ==
    [df EXCEPT !.rows = [i \in DOMAIN df.rows |->
        [df.rows[i] EXCEPT !.cells[ColPos(df, cDate)] = fillna(@, Ts(0))]]]

\* df = df.dropna(subset=['Date'])
DropNaDate(df) ==
    LET HasDate(row) == ~IsNa(Cell(df, row, cDate))
    IN  [df EXCEPT !.rows = SelectSeq(df.rows, HasDate)]

\* Variant: the fillna(0) left out.
CoerceNumericNoFill(c) == to_numeric(c)

\* pd.to_numeric(col, errors='coerce').fillna(0)
CoerceNumeric(c) == fillna(to_numeric(c), Num(0))

\* df['Amount'] = ... ; df['Qty'] = ...
CoerceAmountQty(df) ==
    [df EXCEPT !.rows = [i \in DOMAIN df.rows |->
        [df.rows[i] EXCEPT !.cells[ColPos(df, cAmount)] = CoerceNumeric(@),
                           !.cells[ColPos(df, cQty)] = CoerceNumeric(@)]]]

\* df['Category'] = df['Category'].str.title().fillna("Unknown")
\* df['Status'] = df['Status'].fillna("Unknown")
FillLabels(df) ==
    [df EXCEPT !.rows = [i \in DOMAIN df.rows |->
        [df.rows[i] EXCEPT !.cells[ColPos(df, cCategory)] = fillna(str_title(@), Unknown),
                           !.cells[ColPos(df, cStatus)] = fillna(@, Unknown)]]]

\* df.drop_duplicates(): a row is dropped when an earlier kept row has the
\* same value in every column (the index label is not a column).
RECURSIVE DedupFrom(_, _, _)
DedupFrom(rows, i, acc) ==
    IF i > Len(rows) THEN acc
    ELSE IF \E k \in DOMAIN acc : acc[k].cells = rows[i].cells
         THEN DedupFrom(rows, i + 1, acc)
         ELSE DedupFrom(rows, i + 1, Append(acc, rows[i]))

DropDuplicates(df) == [df EXCEPT !.rows = DedupFrom(df.rows, 1, << >>)]

\* Variant: the labels left 0-based (the + 1 left out).
ResetIndexZeroBased(df) ==
    [df EXCEPT !.rows = [i \in DOMAIN df.rows |-> [df.rows[i] EXCEPT !.idx = i - 1]]]

\* Variant: the reset_index left out, the + 1 applied to the labels as they are.
ResetIndexKeepLabels(df) ==
    [df EXCEPT !.rows = [i \in DOMAIN df.rows |-> [df.rows[i] EXCEPT !.idx = @ + 1]]]

\* df = df.reset_index(drop=True); df.index = df.index + 1
ResetIndex(df) ==
    [df EXCEPT !.rows = [i \in DOMAIN df.rows |-> [df.rows[i] EXCEPT !.idx = (i - 1) + 1]]]

\* The cleaning steps of load_and_clean_data, applied to a DataFrame.
CleanFrame(df) ==
    ResetIndex(DropDuplicates(FillLabels(CoerceAmountQty(
        DropNaDate(ParseDates(StandardizeColumns(df)))))))

\* The exceptions of the cleaning steps: a KeyError when a column the steps
\* read is missing after the names are standardized, an AttributeError from
\* .str when the Category column holds no string (a column of a non-empty
\* file whose every Category field is empty is a float column).
CleanRaises(df) ==
    LET d == StandardizeColumns(df)
    IN  \/ \E name \in {cDate, cAmount, cQty, cCategory, cStatus} : ~HasCol(d, name)
        \/ /\ d.rows # << >>
           /\ \A i \in DOMAIN d.rows : Cell(d, d.rows[i], cCategory).t # "str"

LoadRaises(f) == ~f.readable \/ CleanRaises(read_csv(f))

load_and_clean_data(f) == CleanFrame(read_csv(f))


\* ------------------------------------------------------------- the script body
\* Variant: the Timestamp compared with the bounds, not its calendar day.
InRangeTimestamp(df, row, start, end) ==
    Cell(df, row, cDate).n >= start * TicksPerDay /\ Cell(df, row, cDate).n <= end * TicksPerDay

\* (df['Date'].dt.date >= start_date) & (df['Date'].dt.date <= end_date)
InRange(df, row, start, end) ==
    DateOf(Cell(df, row, cDate)) >= start /\ DateOf(Cell(df, row, cDate)) <= end

\* df[...]: the rows whose Date falls on a day from start to end.
FilterDates(df, start, end) ==
    LET Keep(row) == InRange(df, row, start, end)
    IN  [df EXCEPT !.rows = SelectSeq(df.rows, Keep)]

\* Variant: the isin applied to an empty selection too.
IsInAlways(df, name, selected) ==
    LET Keep(row) == Cell(df, row, name) \in selected
    IN  [df EXCEPT !.rows = SelectSeq(df.rows, Keep)]

\* if selected: filtered_df = filtered_df[filtered_df[name].isin(selected)]
IsIn(df, name, selected) ==
    IF selected = {} THEN df
    ELSE LET Keep(row) == Cell(df, row, name) \in selected
         IN  [df EXCEPT !.rows = SelectSeq(df.rows, Keep)]

FilterRows(df, start, end, cats, statuses) ==
    IsIn(IsIn(FilterDates(df, start, end), cCategory, cats), cStatus, statuses)

\* Series.sum() of a numeric column: NaN is skipped, the empty sum is 0.
RECURSIVE SumCol(_, _, _)
SumCol(df, name, i) ==
    IF i > Len(df.rows) THEN 0
    ELSE (IF Cell(df, df.rows[i], name).t = "num" THEN Cell(df, df.rows[i], name).n ELSE 0)
         + SumCol(df, name, i + 1)

Sum(df, name) == SumCol(df, name, 1)

\* Series.mean(): the sum over the count as a fraction num/den, NaN for a
\* column with no value.
Mean(df, name) ==
    IF df.rows = << >> THEN [nan |-> TRUE, num |-> 0, den |-> 1]
    ELSE [nan |-> FALSE, num |-> Sum(df, name), den |-> Len(df.rows)]

\* groupby(name): the group keys are the distinct non-missing values, sorted.
RECURSIVE SortedInsert(_, _)
SortedInsert(keys, k) ==
    IF keys = << >> THEN << k >>
    ELSE IF k = keys[1] THEN keys
    ELSE IF StrLess(k, keys[1]) THEN << k >> \o keys
    ELSE << keys[1] >> \o SortedInsert(Tail(keys), k)

\* Variant (groupby(sort=False)): the keys in the order they first appear.
FirstSeenInsert(keys, k) ==
    IF \E i \in DOMAIN keys : keys[i] = k THEN keys ELSE Append(keys, k)

RECURSIVE GroupKeysFrom(_, _, _)
GroupKeysFrom(df, name, i) ==
    IF i = 0 THEN << >>
    ELSE IF IsNa(Cell(df, df.rows[i], name)) THEN GroupKeysFrom(df, name, i - 1)
    ELSE SortedInsert(GroupKeysFrom(df, name, i - 1), Cell(df, df.rows[i], name).s)

RECURSIVE GroupKeysUnsortedFrom(_, _, _)
GroupKeysUnsortedFrom(df, name, i) ==
    IF i = 0 THEN << >>
    ELSE IF IsNa(Cell(df, df.rows[i], name)) THEN GroupKeysUnsortedFrom(df, name, i - 1)
    ELSE FirstSeenInsert(GroupKeysUnsortedFrom(df, name, i - 1), Cell(df, df.rows[i], name).s)

GroupKeysUnsorted(df, name) == GroupKeysUnsortedFrom(df, name, Len(df.rows))

GroupKeys(df, name) == GroupKeysFrom(df, name, Len(df.rows))

\* groupby(name)['Amount'].sum(): one entry per key, in key order.
GroupSum(df, name) ==
    LET keys == GroupKeys(df, name)
        Of(k) == LET Keep(row) == Cell(df, row, name) = Str(k)
                 IN  [df EXCEPT !.rows = SelectSeq(df.rows, Keep)]
    IN  [j \in DOMAIN keys |-> [ship_city |-> keys[j], Amount |-> Sum(Of(keys[j]), cAmount)]]

RemoveAt(s, i) == SubSeq(s, 1, i - 1) \o SubSeq(s, i + 1, Len(s))

\* Series.nlargest(n) (keep='first'): the n largest values in decreasing
\* order, equal values in their order in the series.
RECURSIVE NLargest(_, _)
NLargest(s, n) ==
    IF n = 0 \/ s = << >> THEN << >>
    ELSE LET i == CHOOSE i \in DOMAIN s :
                    /\ \A j \in DOMAIN s : s[j].Amount <= s[i].Amount
                    /\ \A j \in DOMAIN s : j < i => s[j].Amount < s[i].Amount
         IN  << s[i] >> \o NLargest(RemoveAt(s, i), n - 1)

\* The 10 of nlargest(10).
TopN == 10

\* filtered_df.groupby('ship_city')['Amount'].sum().nlargest(10).reset_index()
CitySales(view) == NLargest(GroupSum(view, cShipCity), TopN)

\* filtered_df.to_csv(index=False): the columns and the rows without their
\* index labels (the encoding of the values as text is left out).
to_csv(view) ==
    [header |-> view.columns, rows |-> [i \in DOMAIN view.rows |-> view.rows[i].cells]]

\* df[name].unique()
Unique(df, name) == { Cell(df, df.rows[i], name) : i \in DOMAIN df.rows }

\* df['Date'].min().date(), df['Date'].max().date() of a non-empty frame.
MinDate(df) ==
    CHOOSE d \in { DateOf(Cell(df, df.rows[i], cDate)) : i \in DOMAIN df.rows } :
        \A i \in DOMAIN df.rows : d <= DateOf(Cell(df, df.rows[i], cDate))
MaxDate(df) ==
    CHOOSE d \in { DateOf(Cell(df, df.rows[i], cDate)) : i \in DOMAIN df.rows } :
        \A i \in DOMAIN df.rows : d >= DateOf(Cell(df, df.rows[i], cDate))


\* ------------------------------------------------------------- input files
\* A CSV file: whether it can be read, its header line, its rows of text
\* fields (Date, Amount, Qty, Category, Status, ship-city).
HeaderPlain ==
    << cDate, cAmount, cQty, cCategory, cStatus, << "s", "h", "i", "p", "-", "c", "i", "t", "y" >> >>
HeaderPadded ==
    << << " ", "D", "a", "t", "e", " " >>, cAmount, << "Q", "t", "y", " " >>, cCategory, cStatus,
       << "s", "h", "i", "p", " ", "c", "i", "t", "y" >> >>
HeaderNoDate ==
    << << "D", "a", "y" >>, cAmount, cQty, cCategory, cStatus, cShipCity >>

SeqsUpTo(S, n) == UNION { [1 .. k -> S] : k \in 0 .. n }

DateTexts == { << Digits[d + 1], "-", Digits[t + 1] >> : d \in Days, t \in Ticks }
tDay0 == << "0", "-", "0" >>
BadDate == << "x" >>
tAb == << "a", "b" >>
tOk == << "o", "k" >>
tCityA == << "a" >>

\* Rows that differ in their date (every day and time of day).
RowsDates == { << d, << "2" >>, << "1" >>, tAb, tOk, tCityA >> : d \in DateTexts }

\* Rows that differ in their numbers: an amount that is no number with a
\* quantity, a negative amount with a missing quantity, an amount with a
\* negative quantity; each with a date and without one.
RowsNumbers ==
    { << d, n[1], n[2], tAb, tOk, tCityA >> :
          d \in { tDay0, BadDate },
          n \in { << << "x" >>, << "1" >> >>, << << "-", "1" >>, << >> >>,
                  << << "2" >>, << "-", "1" >> >> } }

\* Rows that differ in their labels: the same category in two spellings, a
\* missing category, a missing status.
RowsLabels ==
    { << tDay0, << "2" >>, << "1" >>, c, st, tCityA >> :
          c \in { << >>, tAb, << "A", "B" >> }, st \in { << >>, tOk } }

SmallFiles ==
    { [readable |-> TRUE, header |-> HeaderPlain, rows |-> r] :
          r \in SeqsUpTo(RowsDates, MaxRows) \cup SeqsUpTo(RowsNumbers, MaxRows)
                \cup SeqsUpTo(RowsLabels, MaxRows) }
    \cup { [readable |-> TRUE, header |-> h, rows |-> r] :
               h \in { HeaderPadded, HeaderNoDate },
               r \in SeqsUpTo({ << tDay0, << "x" >>, << "1" >>, tAb, << >>, tCityA >> }, 1) }
    \cup { [readable |-> FALSE, header |-> << >>, rows |-> << >>] }

\* Files of many cities: one row per city, the cities in ascending or in
\* descending label order, the amounts 1 and 2 (one amount up to a row and
\* the other after it, or one amount in a single row and the other in the
\* rest); and possibly one more row, of amount 3, for the city of the first
\* row or for no city.
CityLetters == << "a", "b", "c", "d", "e", "f", "g", "h", "i", "j", "k", "l", "m" >>

CityRow(city, amount) == << tDay0, << amount >>, << "1" >>, tAb, tOk, city >>

AmountPatterns ==
    { [i \in 1 .. MaxCity |-> IF i <= k THEN p[1] ELSE p[2]] :
          k \in 0 .. MaxCity, p \in { << "1", "2" >>, << "2", "1" >> } }
    \cup { [i \in 1 .. MaxCity |-> IF i = k THEN p[1] ELSE p[2]] :
               k \in 1 .. MaxCity, p \in { << "1", "2" >>, << "2", "1" >> } }

CityFiles ==
    { [readable |-> TRUE, header |-> HeaderPlain,
       rows |-> [i \in 1 .. MaxCity |->
                    CityRow(<< CityLetters[IF asc THEN i ELSE MaxCity + 1 - i] >>, a[i])]
                \o (IF extra = "same city"
                    THEN << CityRow(<< CityLetters[IF asc THEN 1 ELSE MaxCity] >>, "3") >>
                    ELSE IF extra = "no city" THEN << CityRow(<< >>, "3") >>
                    ELSE << >>)] :
          a \in AmountPatterns, asc \in BOOLEAN,
          extra \in { "none", "same city", "no city" } }
    \cup { [readable |-> TRUE, header |-> HeaderPlain, rows |-> << >>],
           [readable |-> FALSE, header |-> << >>, rows |-> << >>] }

\* ------------------------------------------------------------- state
VARIABLES
    file,            \* the CSV file on disk
    pc,              \* where the script run is
    runs,            \* script runs of the session so far, this one included
    loads,           \* calls of load_and_clean_data in the session so far
    first_df,        \* the dataset the session's first successful load returned
    file_changed,    \* whether the file changed after the session began
    widgets,         \* the values the user has set in the sidebar widgets
    df,              \* the cleaned dataset of this run
    min_date, max_date,
    start_date, end_date, selected_cat, selected_status,
    filtered_df,
    kpi,             \* the four KPI tiles
    city_sales,      \* the top-10 city chart
    csv              \* the export

vars == << file, pc, runs, loads, first_df, file_changed, widgets, df, min_date, max_date,
           start_date, end_date, selected_cat, selected_status, filtered_df, kpi,
           city_sales, csv >>

runVars == << df, min_date, max_date, start_date, end_date, selected_cat, selected_status,
              filtered_df, kpi, city_sales, csv >>

NoFrame == [columns |-> << >>, rows |-> << >>]
NoKpi == [total_revenue |-> 0, total_orders |-> 0,
          avg_order_value |-> [nan |-> FALSE, num |-> 0, den |-> 1], quantity_sold |-> 0]
NoCsv == [header |-> << >>, rows |-> << >>]
NoDate == [set |-> FALSE, v |-> 0]
NoWidgets == [start |-> NoDate, end |-> NoDate, cat |-> {}, status |-> {}]

\* A script run begins with a fresh namespace.
FreshRun ==
    /\ df = NoFrame /\ min_date = 0 /\ max_date = 0 /\ start_date = 0 /\ end_date = 0
    /\ selected_cat = {} /\ selected_status = {} /\ filtered_df = NoFrame
    /\ kpi = NoKpi /\ city_sales = << >> /\ csv = NoCsv

InitSession ==
    /\ pc = "start" /\ runs = 1 /\ loads = 0
    /\ first_df = [set |-> FALSE, df |-> NoFrame] /\ file_changed = FALSE
    /\ widgets = NoWidgets
    /\ FreshRun

Init == file \in SmallFiles /\ InitSession

InitCity == file \in CityFiles /\ InitSession

\* ------------------------------------------------------------- one script run
\* Lines 49-53, load_and_clean_data returns.
LoadOk ==
    /\ pc = "start"
    /\ ~LoadRaises(file)
    /\ df' = load_and_clean_data(file)
    /\ loads' = loads + 1
    /\ first_df' = IF first_df.set THEN first_df ELSE [set |-> TRUE, df |-> df']
    /\ pc' = "loaded"
    /\ UNCHANGED << file, runs, file_changed, widgets, min_date, max_date, start_date,
                    end_date, selected_cat, selected_status, filtered_df, kpi, city_sales, csv >>

\* Lines 49-53, load_and_clean_data raises: st.error, st.stop.
LoadFail ==
    /\ pc = "start"
    /\ LoadRaises(file)
    /\ loads' = loads + 1
    /\ pc' = "stopped"
    /\ UNCHANGED << file, runs, first_df, file_changed, widgets, runVars >>

\* Line 60 on an empty dataset: min() is NaT and NaT.date() raises a
\* ValueError nothing catches; the run ends there.
DateRangeRaises ==
    /\ pc = "loaded"
    /\ df.rows = << >>
    /\ pc' = "crashed"
    /\ UNCHANGED << file, runs, loads, first_df, file_changed, widgets, runVars >>

\* Lines 60-66: the date range of the data and the sidebar widgets.  A
\* widget returns what the user has set it to, its default otherwise.
Sidebar ==
    /\ pc = "loaded"
    /\ df.rows # << >>
    /\ min_date' = MinDate(df)
    /\ max_date' = MaxDate(df)
    /\ start_date' = IF widgets.start.set THEN widgets.start.v ELSE min_date'
    /\ end_date' = IF widgets.end.set THEN widgets.end.v ELSE max_date'
    /\ selected_cat' = widgets.cat
    /\ selected_status' = widgets.status
    /\ pc' = "widgets"
    /\ UNCHANGED << file, runs, loads, first_df, file_changed, widgets, df, filtered_df,
                    kpi, city_sales, csv >>

\* Variant: the filter assigned to df itself.
FilterInPlace ==
    /\ pc = "widgets"
    /\ df' = FilterRows(df, start_date, end_date, selected_cat, selected_status)
    /\ filtered_df' = df'
    /\ pc' = "filtered"
    /\ UNCHANGED << file, runs, loads, first_df, file_changed, widgets, min_date, max_date,
                    start_date, end_date, selected_cat, selected_status, kpi, city_sales, csv >>

\* Lines 69-73.
Filter ==
    /\ pc = "widgets"
    /\ filtered_df' = FilterRows(df, start_date, end_date, selected_cat, selected_status)
    /\ pc' = "filtered"
    /\ UNCHANGED << file, runs, loads, first_df, file_changed, widgets, df, min_date, max_date,
                    start_date, end_date, selected_cat, selected_status, kpi, city_sales, csv >>

\* Lines 76-135: the KPI tiles, the charts and the table (of which the city
\* chart is modelled), the export.
Render ==
    /\ pc = "filtered"
    /\ kpi' = [total_revenue |-> Sum(filtered_df, cAmount),
               total_orders |-> Len(filtered_df.rows),
               avg_order_value |-> Mean(filtered_df, cAmount),
               quantity_sold |-> Sum(filtered_df, cQty)]
    /\ city_sales' = CitySales(filtered_df)
    /\ csv' = to_csv(filtered_df)
    /\ pc' = "done"
    /\ UNCHANGED << file, runs, loads, first_df, file_changed, widgets, df, min_date, max_date,
                    start_date, end_date, selected_cat, selected_status, filtered_df >>

NextRun == LoadOk \/ LoadFail \/ DateRangeRaises \/ Sidebar \/ Filter \/ Render

\* ------------------------------------------------------------- the session
Ended == pc \in { "done", "stopped", "crashed" }

\* Streamlit runs the script again, from its first line.
StartRun ==
    /\ runs < MaxRuns
    /\ runs' = runs + 1
    /\ pc' = "start"
    /\ df' = NoFrame /\ min_date' = 0 /\ max_date' = 0 /\ start_date' = 0 /\ end_date' = 0
    /\ selected_cat' = {} /\ selected_status' = {} /\ filtered_df' = NoFrame
    /\ kpi' = NoKpi /\ city_sales' = << >> /\ csv' = NoCsv
    /\ UNCHANGED << loads, first_df >>

\* The user asks for a rerun without touching a widget.
Rerun == Ended /\ StartRun /\ UNCHANGED << file, file_changed, widgets >>

\* The user changes one widget of the rendered sidebar, which reruns the script.
ChangeStartDate ==
    /\ pc = "done"
    /\ \E d \in Days : widgets' = [widgets EXCEPT !.start = [set |-> TRUE, v |-> d]]
    /\ StartRun
    /\ UNCHANGED << file, file_changed >>

ChangeEndDate ==
    /\ pc = "done"
    /\ \E d \in Days : widgets' = [widgets EXCEPT !.end = [set |-> TRUE, v |-> d]]
    /\ StartRun
    /\ UNCHANGED << file, file_changed >>

ChangeCategory ==
    /\ pc = "done"
    /\ \E sel \in SUBSET Unique(df, cCategory) : widgets' = [widgets EXCEPT !.cat = sel]
    /\ StartRun
    /\ UNCHANGED << file, file_changed >>

ChangeStatus ==
    /\ pc = "done"
    /\ \E sel \in SUBSET Unique(df, cStatus) : widgets' = [widgets EXCEPT !.status = sel]
    /\ StartRun
    /\ UNCHANGED << file, file_changed >>

\* Before a rerun the file on disk has lost its first row, or has been
\* removed (one change of the file in a session is modelled).
FileChange ==
    /\ Ended
    /\ ~file_changed
    /\ file.readable
    /\ \/ file.rows # << >> /\ file' = [file EXCEPT !.rows = Tail(@)]
       \/ file' = [file EXCEPT !.readable = FALSE]
    /\ file_changed' = TRUE
    /\ StartRun
    /\ UNCHANGED widgets

Next ==
    \/ NextRun
    \/ Rerun \/ ChangeStartDate \/ ChangeEndDate \/ ChangeCategory \/ ChangeStatus
    \/ FileChange

\* A session over a small file.
Spec == Init /\ [][Next]_vars

\* The first run of a session over a file of many cities.
SpecCity == InitCity /\ [][NextRun]_vars


\* ------------------------------------------------------------- properties
\* load_and_clean_data has just returned df.
Returned == pc = "loaded"
\* The run holds a dataset that load_and_clean_data returned.
Loaded == pc \in { "loaded", "crashed", "widgets", "filtered", "done" }
Filtered == pc \in { "filtered", "done" }

\* The file as read, its column names standardized.
Raw == StandardizeColumns(read_csv(file))

\* Text that reads as a negative number.
NegativeText(c) == c.t = "str" /\ c.s # << >> /\ c.s[1] = "-" /\ IsDigits(Tail(c.s))
NegativeIn(raw, name, n) ==
    \E j \in DOMAIN raw.rows :
        /\ NegativeText(Cell(raw, raw.rows[j], name))
        /\ n = 0 - DecVal(Tail(Cell(raw, raw.rows[j], name).s))

C2_Original_EmptyIsLoadError ==
    (pc # "start" /\ (LoadRaises(file) \/ df.rows = << >>)) => pc = "stopped"

\* C3 as stated: the KPI tiles of an empty filtered view show a total
\* revenue of 0 and an average order value of 0, not NaN.
C3_Original_EmptyViewAverageZero ==
    (pc = "done" /\ filtered_df.rows = << >>) =>
        /\ kpi.total_revenue = 0
        /\ ~kpi.avg_order_value.nan /\ kpi.avg_order_value.num = 0


\* The rows of a frame, as a set (a row carries its index label).
RowSet(d) == { d.rows[i] : i \in DOMAIN d.rows }
Day(row) == Cell(df, row, cDate).n \div TicksPerDay

\* C4: the filtered view holds only records of the dataset, each with
\* start_date <= its calendar day <= end_date whatever its time of day; with
\* no category or status selected it holds every such record; and for
\* start_date > end_date it is empty, the filter step having run.
C4_DateRangeInclusive ==
    Filtered =>
        /\ RowSet(filtered_df) \subseteq RowSet(df)
        /\ \A r \in RowSet(filtered_df) : start_date <= Day(r) /\ Day(r) <= end_date
        /\ (selected_cat = {} /\ selected_status = {}) =>
               \A r \in RowSet(df) :
                   (start_date <= Day(r) /\ Day(r) <= end_date) => r \in RowSet(filtered_df)
        /\ start_date > end_date => filtered_df.rows = << >>

\* A view of the single day start_date = end_date that keeps a record of
\* that day with a time of day and leaves out a record of another day.
C4_Witness ==
    /\ Filtered
    /\ start_date = end_date
    /\ \E r \in RowSet(filtered_df) : Cell(df, r, cDate).n # Day(r) * TicksPerDay
    /\ \E r \in RowSet(df) : r \notin RowSet(filtered_df)

\* C5: of the records in the date range the view keeps exactly those whose
\* Category is selected, or any when none is selected, and whose Status is
\* selected, or any when none is selected; with nothing selected and the
\* range from the first to the last day of the dataset the view is the
\* dataset, its order and index included.
C5_SelectionMembership ==
    Filtered =>
        /\ \A r \in RowSet(df) :
               (start_date <= Day(r) /\ Day(r) <= end_date) =>
                   (r \in RowSet(filtered_df) <=>
                        /\ selected_cat = {} \/ Cell(df, r, cCategory) \in selected_cat
                        /\ selected_status = {} \/ Cell(df, r, cStatus) \in selected_status)
        /\ ( /\ selected_cat = {} /\ selected_status = {}
             /\ \A r \in RowSet(df) : start_date <= Day(r) /\ Day(r) <= end_date )
           => filtered_df = df

\* A view that a category selection restricts: a record of a selected
\* category is kept, a record of another category is left out, while no
\* status is selected.
C5_Witness ==
    /\ Filtered
    /\ selected_cat # {} /\ selected_status = {}
    /\ filtered_df.rows # << >>
    /\ \E r \in RowSet(df) :
           /\ start_date <= Day(r) /\ Day(r) <= end_date
           /\ r \notin RowSet(filtered_df)

\* The number a numeric field cleans to: its value, 0 when it is no number.
CleanNumber(c) == IF to_numeric(c).t = "num" THEN to_numeric(c) ELSE Num(0)

\* C6: every record of the cleaned dataset has the date some input row
\* parses to, there are no more records than input rows with a parseable
\* date, and every input row with a parseable date has its record, the
\* Amount and Qty that are no numbers set to 0.
C6_OnlyParsedDates ==
    Returned =>
        LET raw == Raw
            date == [j \in DOMAIN raw.rows |-> to_datetime(Cell(raw, raw.rows[j], cDate))]
        IN  /\ \A i \in DOMAIN df.rows :
                   /\ Cell(df, df.rows[i], cDate).t = "ts"
                   /\ \E j \in DOMAIN raw.rows : date[j] = Cell(df, df.rows[i], cDate)
            /\ Len(df.rows) <= Cardinality({ j \in DOMAIN raw.rows : date[j].t = "ts" })
            /\ \A j \in DOMAIN raw.rows :
                   date[j].t = "ts" =>
                       \E i \in DOMAIN df.rows :
                           /\ Cell(df, df.rows[i], cDate) = date[j]
                           /\ Cell(df, df.rows[i], cAmount) = CleanNumber(Cell(raw, raw.rows[j], cAmount))
                           /\ Cell(df, df.rows[i], cQty) = CleanNumber(Cell(raw, raw.rows[j], cQty))
                           /\ Cell(df, df.rows[i], cShipCity) = Cell(raw, raw.rows[j], cShipCity)

\* A file with a row of no parseable date and a row of a parseable date
\* whose Amount is no number: the dataset holds one record, of Amount 0.
C6_Witness ==
    /\ Returned
    /\ Len(df.rows) = 1
    /\ Cell(df, df.rows[1], cAmount) = Num(0)
    /\ LET raw == Raw
       IN  /\ Len(raw.rows) = 2
           /\ \E j \in DOMAIN raw.rows : to_datetime(Cell(raw, raw.rows[j], cDate)).t = "nan"
           /\ \E j \in DOMAIN raw.rows :
                  /\ to_datetime(Cell(raw, raw.rows[j], cDate)).t = "ts"
                  /\ to_numeric(Cell(raw, raw.rows[j], cAmount)).t = "nan"

\* The rows as they stand before the duplicates are dropped, each with the
\* label of its line in the file.
BeforeDedup == FillLabels(CoerceAmountQty(DropNaDate(ParseDates(Raw))))

\* The lines whose row is the first with its values.
FirstOccurrences(rows) ==
    { j \in DOMAIN rows : \A j2 \in 1 .. (j - 1) : rows[j2].cells # rows[j].cells }

\* C7: no two records of the cleaned dataset agree on every column; the
\* records are the first occurrences among the cleaned rows, in the order
\* of the input; and record k has index k, for k = 1..n.
C7_NoDuplicatesOrderIndex ==
    Returned =>
        LET before == BeforeDedup.rows
            first == FirstOccurrences(before)
        IN  /\ \A i, k \in DOMAIN df.rows : i # k => df.rows[i].cells # df.rows[k].cells
            /\ Len(df.rows) = Cardinality(first)
            /\ \A k \in DOMAIN df.rows :
                   /\ df.rows[k].idx = k
                   /\ \E j \in first :
                          /\ Cardinality({ j2 \in first : j2 <= j }) = k
                          /\ df.rows[k].cells = before[j].cells

\* A file of two rows that differ as text (the spelling of the category)
\* and are equal once cleaned: the dataset holds the first alone, index 1.
C7_Witness ==
    /\ Returned
    /\ Len(df.rows) = 1 /\ df.rows[1].idx = 1
    /\ Len(file.rows) = 2 /\ file.rows[1] # file.rows[2]
    /\ Len(BeforeDedup.rows) = 2

\* C9: the cleaning steps applied to the cleaned dataset raise nothing and
\* return it: the same columns, records, order and index.
C9_CleaningIdempotent ==
    Returned => (~CleanRaises(df) /\ CleanFrame(df) = df)

\* A cleaned dataset of two records, one of a missing category, out of a
\* file whose column names cleaning changed.
C9_Witness ==
    /\ Returned
    /\ Len(df.rows) = 2
    /\ df.columns # read_csv(file).columns
    /\ \E i \in DOMAIN df.rows : Cell(df, df.rows[i], cCategory) = Unknown

\* The view as one pass over the dataset with the three conditions.
ViewOf(d, start, end, cats, statuses) ==
    LET Keep(row) ==
            /\ start <= Cell(d, row, cDate).n \div TicksPerDay
            /\ Cell(d, row, cDate).n \div TicksPerDay <= end
            /\ cats = {} \/ Cell(d, row, cCategory) \in cats
            /\ statuses = {} \/ Cell(d, row, cStatus) \in statuses
    IN  [d EXCEPT !.rows = SelectSeq(d.rows, Keep)]

CitiesOf(view) ==
    { Cell(view, view.rows[i], cShipCity).s :
          i \in { i2 \in DOMAIN view.rows : ~IsNa(Cell(view, view.rows[i2], cShipCity)) } }
RevenueOf(view, city) ==
    LET Of(row) == Cell(view, row, cShipCity) = Str(city)
    IN  Sum([view EXCEPT !.rows = SelectSeq(view.rows, Of)], cAmount)
FirstRowOf(view, city) ==
    CHOOSE i \in DOMAIN view.rows :
        /\ Cell(view, view.rows[i], cShipCity) = Str(city)
        /\ \A i2 \in 1 .. (i - 1) : Cell(view, view.rows[i2], cShipCity) # Str(city)

\* The part of C8 that does not depend on how ties are broken: at most 10
\* entries, as many as there are cities up to 10, each a different city of
\* the view with its summed amount, none smaller than the summed amount of
\* a city left out.
TopCitiesByRevenue(cities, revenue) ==
    /\ Len(city_sales) <= 10
    /\ Len(city_sales) = (IF Cardinality(cities) < 10 THEN Cardinality(cities) ELSE 10)
    /\ \A k \in DOMAIN city_sales :
           /\ city_sales[k].ship_city \in cities
           /\ city_sales[k].Amount = revenue[city_sales[k].ship_city]
           /\ \A k2 \in DOMAIN city_sales :
                  k # k2 => city_sales[k].ship_city # city_sales[k2].ship_city
           /\ \A c \in cities \ { city_sales[k2].ship_city : k2 \in DOMAIN city_sales } :
                  city_sales[k].Amount >= revenue[c]

\* C8 as stated: the top 10 cities by revenue, and a city left out that
\* ties with a returned city first appears in the view after it.
C8_Original_TiesByFirstAppearance ==
    pc = "done" =>
        LET cities == CitiesOf(filtered_df)
            revenue == [c \in cities |-> RevenueOf(filtered_df, c)]
        IN  /\ TopCitiesByRevenue(cities, revenue)
            /\ \A k \in DOMAIN city_sales :
                   \A c \in cities \ { city_sales[k2].ship_city : k2 \in DOMAIN city_sales } :
                       city_sales[k].Amount = revenue[c] =>
                           FirstRowOf(filtered_df, city_sales[k].ship_city)
                               < FirstRowOf(filtered_df, c)

\* C8 as amended: the top 10 cities by revenue, and a city left out that
\* ties with a returned city has the greater label (the ties are broken by
\* the sorted order of the city labels).
C8_TiesByLabelOrder ==
    pc = "done" =>
        LET cities == CitiesOf(filtered_df)
            revenue == [c \in cities |-> RevenueOf(filtered_df, c)]
        IN  /\ TopCitiesByRevenue(cities, revenue)
            /\ \A k \in DOMAIN city_sales :
                   \A c \in cities \ { city_sales[k2].ship_city : k2 \in DOMAIN city_sales } :
                       city_sales[k].Amount = revenue[c] => StrLess(city_sales[k].ship_city, c)

\* A view of more than 10 cities in which a city left out ties with a
\* returned one, and the city of least label first appears in the last row.
C8_Witness ==
    /\ pc = "done"
    /\ LET cities == CitiesOf(filtered_df)
           left == cities \ { city_sales[k].ship_city : k \in DOMAIN city_sales }
       IN  /\ Cardinality(cities) > 10
           /\ \E k \in DOMAIN city_sales, c \in left :
                  city_sales[k].Amount = RevenueOf(filtered_df, c)
           /\ \E c \in cities :
                  /\ \A c2 \in cities : c2 = c \/ StrLess(c, c2)
                  /\ FirstRowOf(filtered_df, c) > 10

=============================================================================
